---- MODULE Spec2Model ----
(***************************************************************************)
(* Verification model of the ContentParser disclaimer widget               *)
(* (src/unnamed/part_001, with the older variants of src/parser.js).       *)
(*                                                                         *)
(* JavaScript strings are modelled as sequences of one-character strings,  *)
(* so that every conversion of the code (escaping, trimming, upper-casing, *)
(* URL and date parsing) is computed character by character.  The control  *)
(* character U+0001 is written as the single element "^A".                 *)
(* Instants are whole seconds since the epoch (the code compares           *)
(* millisecond time values; every bound of a record is a whole second).    *)
(***************************************************************************)
EXTENDS Integers, Sequences, FiniteSets, TLC

\* ------------------------------------------------------------------------
\* Bounds of the model
\* ------------------------------------------------------------------------
MaxFeed == 2        \* records in a delivered feed
MaxCalls == 3       \* user calls of init() / insertPageContents() per instance
MaxText == 3        \* characters of a text given to normalizeText on its own

\* ------------------------------------------------------------------------
\* Characters and strings
\* ------------------------------------------------------------------------
Lower == <<"a","b","c","d","e","f","g","h","i","j","k","l","m",
           "n","o","p","q","r","s","t","u","v","w","x","y","z">>
Upper == <<"A","B","C","D","E","F","G","H","I","J","K","L","M",
           "N","O","P","Q","R","S","T","U","V","W","X","Y","Z">>
Digits == <<"0","1","2","3","4","5","6","7","8","9">>

Range(f) == { f[x] : x \in DOMAIN f }

IsLower(c) == c \in Range(Lower)
IsDigit(c) == c \in Range(Digits)

\* value of a decimal digit
DigitVal(c) == (CHOOSE i \in 1..10 : Digits[i] = c) - 1

\* String.prototype.toUpperCase on one character
UpperChar(c) == IF IsLower(c) THEN Upper[CHOOSE i \in 1..26 : Lower[i] = c] ELSE c

toUpperCase(s) == [i \in 1..Len(s) |-> UpperChar(s[i])]

\* String.prototype.toLowerCase on one character
LowerChar(c) == IF c \in Range(Upper) THEN Lower[CHOOSE i \in 1..26 : Upper[i] = c] ELSE c

toLowerCase(s) == [i \in 1..Len(s) |-> LowerChar(s[i])]

\* the characters matched by \s that occur in the model
IsSpace(c) == c \in {" ", "\t", "\n"}

\* the characters matched by [\x00-\x1F\x7F-\x9F] that occur in the model
IsControl(c) == c \in {"^A", "\t", "\n"}

\* s.replace(/\s/g, '')
StripSpaces(s) == SelectSeq(s, LAMBDA c : ~IsSpace(c))

RECURSIVE TrimLeft(_)
TrimLeft(s) == IF s # <<>> /\ IsSpace(Head(s)) THEN TrimLeft(Tail(s)) ELSE s

RECURSIVE TrimRight(_)
TrimRight(s) ==
    IF s # <<>> /\ IsSpace(s[Len(s)]) THEN TrimRight(SubSeq(s, 1, Len(s) - 1)) ELSE s

\* String.prototype.trim
trim(s) == TrimRight(TrimLeft(s))

StartsWith(s, p) == Len(s) >= Len(p) /\ SubSeq(s, 1, Len(p)) = p
EndsWith(s, p) == Len(s) >= Len(p) /\ SubSeq(s, Len(s) - Len(p) + 1, Len(s)) = p

\* position, from i on, of the first character of s that is in set cs, or
\* Len(s)+1
FirstOf(s, cs, i) ==
    LET hits == {k \in i..Len(s) : s[k] \in cs}
    IN  IF hits = {} THEN Len(s) + 1 ELSE CHOOSE k \in hits : \A j \in hits : k <= j

\* String.prototype.split on a one-character separator
RECURSIVE split(_, _)
split(s, sep) ==
    LET k == FirstOf(s, {sep}, 1) IN
    IF k > Len(s) THEN << s >>
    ELSE << SubSeq(s, 1, k - 1) >> \o split(SubSeq(s, k + 1, Len(s)), sep)

\* Array.prototype.join on a one-character separator
RECURSIVE join(_, _)
join(parts, sep) ==
    IF parts = <<>> THEN <<>>
    ELSE IF Len(parts) = 1 THEN parts[1]
    ELSE parts[1] \o << sep >> \o join(Tail(parts), sep)

\* Array.prototype.includes
includes(arr, x) == \E i \in 1..Len(arr) : arr[i] = x

\* ------------------------------------------------------------------------
\* Text Normalizer (part_001, normalizeText / convertUrlsToAnchors)
\* ------------------------------------------------------------------------
S_amp == <<"&","a","m","p",";">>
S_lt == <<"&","l","t",";">>
S_gt == <<"&","g","t",";">>
S_quot == <<"&","q","u","o","t",";">>
S_apos == <<"&","#","0","3","9",";">>

\* the five chained .replace(/c/g, entity) calls of normalizeText; "&" is
\* replaced first, so the "&" of the entities written later is not re-escaped
EscapeChar(c) ==
    CASE c = "&" -> S_amp
      [] c = "<" -> S_lt
      [] c = ">" -> S_gt
      [] c = "\"" -> S_quot
      [] c = "'" -> S_apos
      [] OTHER -> << c >>

\* the concatenation of the strings of a sequence
RECURSIVE Flatten(_)
Flatten(ss) ==
    IF Len(ss) = 0 THEN <<>>
    ELSE IF Len(ss) = 1 THEN ss[1]
    ELSE Flatten(SubSeq(ss, 1, Len(ss) \div 2))
            \o Flatten(SubSeq(ss, Len(ss) \div 2 + 1, Len(ss)))

EscapeHtml(s) == Flatten([i \in 1..Len(s) |-> EscapeChar(s[i])])

\* s.replace(/\s+/g, ' '): the first character of a run of whitespace
\* becomes a space, the others go ("" marks a character that goes)
CollapseSpaces(s) ==
    SelectSeq([i \in 1..Len(s) |->
                  IF ~IsSpace(s[i]) THEN s[i]
                  ELSE IF i > 1 /\ IsSpace(s[i - 1]) THEN "" ELSE " "],
              LAMBDA c : c # "")

\* normalizeText on a string argument
normalizeText(s) ==
    trim(CollapseSpaces(SelectSeq(EscapeHtml(s), LAMBDA c : ~IsControl(c))))

S_http == <<"h","t","t","p",":","/","/">>
S_https == <<"h","t","t","p","s",":","/","/">>

\* new URL(url) for the absolute http(s) URLs of the model: scheme, host up
\* to the first of / ? #, pathname up to the first of ? #.  A string without
\* scheme or with an empty host makes the constructor throw (ok = FALSE).
\* Extra slashes after the scheme are skipped as the URL parser does for
\* special schemes; the host is lower-cased.
RECURSIVE DropSlashes(_)
DropSlashes(s) == IF s # <<>> /\ Head(s) \in {"/", "\\"} THEN DropSlashes(Tail(s)) ELSE s

ParseURL(s) ==
    LET rest0 == IF StartsWith(s, S_https) THEN SubSeq(s, Len(S_https) + 1, Len(s))
                 ELSE IF StartsWith(s, S_http) THEN SubSeq(s, Len(S_http) + 1, Len(s))
                 ELSE <<>>
        rest == DropSlashes(rest0)
        hEnd == FirstOf(rest, {"/", "?", "#"}, 1)
        host == SubSeq(rest, 1, hEnd - 1)
        after == SubSeq(rest, hEnd, Len(rest))
        pEnd == FirstOf(after, {"?", "#"}, 1)
        path == SubSeq(after, 1, pEnd - 1)
    IN  IF host = <<>> THEN [ok |-> FALSE, hostname |-> <<>>, pathname |-> <<>>]
        ELSE [ok |-> TRUE, hostname |-> toLowerCase(host),
              pathname |-> IF path = <<>> THEN << "/" >> ELSE path]

S_a_open == <<"<","a"," ","h","r","e","f","=","\"">>
S_a_mid == <<"\""," ","t","a","r","g","e","t","=","\"","_","b","l","a","n","k","\"",
             " ","r","e","l","=","\"","n","o","o","p","e","n","e","r"," ",
             "n","o","r","e","f","e","r","r","e","r","\"",">">>
S_a_close == <<"<","/","a",">">>

\* the replacement callback of convertUrlsToAnchors
AnchorFor(url) ==
    IF ParseURL(url).ok
    THEN S_a_open \o normalizeText(url) \o S_a_mid \o normalizeText(url) \o S_a_close
    ELSE url

\* characters excluded by [^\s<>"]
UrlStop == {" ", "\t", "\n", "<", ">", "\""}

\* length of the scheme prefix https:// or http:// of s at position k, 0
\* when there is none
SchemeAt(s, k) ==
    IF StartsWith(SubSeq(s, k, Len(s)), S_https) THEN Len(S_https)
    ELSE IF StartsWith(SubSeq(s, k, Len(s)), S_http) THEN Len(S_http) ELSE 0

\* a match of /https?:\/\/[^\s<>"]+/ starts at position k of s
UrlStartsAt(s, k) ==
    /\ SchemeAt(s, k) > 0
    /\ k + SchemeAt(s, k) <= Len(s)
    /\ s[k + SchemeAt(s, k)] \notin UrlStop

\* text.replace(/(https?:\/\/[^\s<>"]+)/g, callback): the leftmost match is
\* replaced and the search goes on after it
RECURSIVE convertUrlsToAnchors(_)
convertUrlsToAnchors(s) ==
    LET starts == {k \in 1..Len(s) : UrlStartsAt(s, k)} IN
    IF starts = {} THEN s
    ELSE LET k == CHOOSE m \in starts : \A j \in starts : m <= j
             stop == FirstOf(s, UrlStop, k + SchemeAt(s, k))
         IN  SubSeq(s, 1, k - 1) \o AnchorFor(SubSeq(s, k, stop - 1))
                \o convertUrlsToAnchors(SubSeq(s, stop, Len(s)))

\* processText on a string argument
processText(s) == convertUrlsToAnchors(normalizeText(s))

\* ------------------------------------------------------------------------
\* URL helpers (part_001, isValidSamsungURL / extractPathAfterCountry /
\* isValidDomain; parser.js, normalizeUrl)
\* ------------------------------------------------------------------------
S_samsung == <<"w","w","w",".","s","a","m","s","u","n","g",".","c","o","m">>
S_qa == <<"p","6","-","q","a",".","s","a","m","s","u","n","g",".","c","o","m">>
S_html == <<".","h","t","m","l">>

\* /^https:\/\/www\.samsung\.com\/[a-z]{2}\/.*$/ tested on a string
isValidSamsungURL(url) ==
    LET p == S_https \o S_samsung \o << "/" >>
        n == Len(p)
    IN  /\ StartsWith(url, p)
        /\ Len(url) >= n + 3
        /\ IsLower(url[n + 1]) /\ IsLower(url[n + 2])
        /\ url[n + 3] = "/"
        /\ \A i \in 1..Len(url) : url[i] # "\n"

\* path.replace(/\.html$/, '').replace(/^\/|\/$/g, '')
CleanPath(path) ==
    LET a == IF EndsWith(path, S_html) THEN SubSeq(path, 1, Len(path) - Len(S_html)) ELSE path
        b == IF StartsWith(a, << "/" >>) THEN Tail(a) ELSE a
    IN  IF EndsWith(b, << "/" >>) THEN SubSeq(b, 1, Len(b) - 1) ELSE b

\* parts.findIndex(part => part.length === 2), 0 when there is none
RECURSIVE FindCountry(_, _)
FindCountry(parts, i) ==
    IF i > Len(parts) THEN 0
    ELSE IF Len(parts[i]) = 2 THEN i ELSE FindCountry(parts, i + 1)

\* extractPathAfterCountry: [ok |-> FALSE] is the null result
extractPathAfterCountry(url) ==
    LET u == ParseURL(url)
        parts == split(CleanPath(u.pathname), "/")
        c == FindCountry(parts, 1)
    IN  IF ~u.ok \/ c = 0 THEN [ok |-> FALSE, v |-> <<>>]
        ELSE [ok |-> TRUE, v |-> join(SubSeq(parts, c + 1, Len(parts)), "/")]

S_dotSamsung == <<".","s","a","m","s","u","n","g",".","c","o","m">>
S_author == <<"p","6","-","e","u","-","a","u","t","h","o","r">> \o S_dotSamsung
S_preqa == <<"p","6","-","p","r","e","-","q","a","2">> \o S_dotSamsung
S_aem == <<"p","6","-","a","e","m","-","s","a">> \o S_dotSamsung
S_qaweb == <<"p","6","-","q","a","w","e","b","-","s","a">> \o S_dotSamsung

\* the qaDomains and allowedDomains lists of the constructor
qaDomains == << S_author, S_qa, S_preqa, S_aem, S_qaweb >>
allowedDomains == << S_samsung >> \o qaDomains

isValidDomain_anyHost(url) == ParseURL(url).ok

\* isValidDomain(url)
isValidDomain(url) ==
    LET u == ParseURL(url) IN u.ok /\ includes(allowedDomains, u.hostname)

\* String.prototype.includes
Contains(s, sub) ==
    \E i \in 0..(Len(s) - Len(sub)) : SubSeq(s, i + 1, i + Len(sub)) = sub

\* ------------------------------------------------------------------------
\* Dates (part_001, isValidISODate / parseDate)
\* ------------------------------------------------------------------------
\* /^\d{4}-\d{2}-\d{2} \d{2}:\d{2}:\d{2}$/
IsoFormat(s) ==
    /\ Len(s) = 19
    /\ \A i \in {1,2,3,4,6,7,9,10,12,13,15,16,18,19} : IsDigit(s[i])
    /\ s[5] = "-" /\ s[8] = "-" /\ s[11] = " " /\ s[14] = ":" /\ s[17] = ":"

Num2(s, i) == 10 * DigitVal(s[i]) + DigitVal(s[i + 1])
Num4(s, i) == 100 * Num2(s, i) + Num2(s, i + 2)

\* days from 1970-01-01 to the civil date y-m-d
DaysFromCivil(y0, m, d) ==
    LET y == IF m <= 2 THEN y0 - 1 ELSE y0
        era == y \div 400
        yoe == y - era * 400
        mp == IF m > 2 THEN m - 3 ELSE m + 9
        doy == (153 * mp + 2) \div 5 + d - 1
        doe == yoe * 365 + yoe \div 4 - yoe \div 100 + doy
    IN  era * 146097 + doe - 719468

DaysInMonth(y, m) ==
    IF m = 2 THEN (IF y % 4 = 0 /\ (y % 100 # 0 \/ y % 400 = 0) THEN 29 ELSE 28)
    ELSE IF m \in {4, 6, 9, 11} THEN 30 ELSE 31

\* new Date(s.replace(' ', 'T')) for a string of the ISO format: the time
\* value in seconds, or NaN (ok = FALSE) for an element out of range.
\* A day past the end of its month and hour 24 are accepted or rejected
\* differently by different engines; the inputs of the model stay clear of
\* them.
DateOf(s) ==
    LET y == Num4(s, 1)  mo == Num2(s, 6)  d == Num2(s, 9)
        h == Num2(s, 12) mi == Num2(s, 15) sec == Num2(s, 18)
    IN  IF mo \in 1..12 /\ d \in 1..DaysInMonth(y, mo) /\ h \in 0..23 /\ mi \in 0..59
           /\ sec \in 0..59 /\ y \in 1970..2037
        THEN [ok |-> TRUE, t |-> ((DaysFromCivil(y, mo, d) * 24 + h) * 60 + mi) * 60 + sec]
        ELSE [ok |-> FALSE, t |-> 0]

\* isValidISODate on a string argument
isValidISODate(s) == IsoFormat(s) /\ DateOf(s).ok

\* parseDate on a string argument: [ok |-> FALSE] is the null result
parseDate(s) ==
    IF s = <<>> \/ ~isValidISODate(s) THEN [ok |-> FALSE, t |-> 0] ELSE DateOf(s)

\* ------------------------------------------------------------------------
\* JavaScript values of a feed
\* ------------------------------------------------------------------------
\* a value: t is the type, s a string's characters, n a number, a an
\* array of strings
JV(t, s, n, a) == [t |-> t, s |-> s, n |-> n, a |-> a]
Undef == JV("undefined", <<>>, 0, <<>>)
Str(s) == JV("string", s, 0, <<>>)
Num(n) == JV("number", <<>>, n, <<>>)
Arr(a) == JV("array", <<>>, 0, a)

\* ToBoolean
Truthy(v) ==
    CASE v.t = "undefined" -> FALSE
      [] v.t = "string" -> v.s # <<>>
      [] v.t = "number" -> v.n # 0
      [] OTHER -> TRUE

\* Number.prototype.toString for the naturals of the model
RECURSIVE NumToStr(_)
NumToStr(n) == IF n < 10 THEN << Digits[n + 1] >> ELSE NumToStr(n \div 10) \o << Digits[(n % 10) + 1] >>

\* String(v), as applied by RegExp.prototype.test and by property keys
ToStr(v) ==
    CASE v.t = "string" -> v.s
      [] v.t = "number" -> NumToStr(v.n)
      [] v.t = "array" -> join(v.a, ",")
      [] OTHER -> <<"u","n","d","e","f","i","n","e","d">>

FieldNames == {"id", "index", "apex", "title", "text", "URLs", "div", "startDate", "endDate"}

\* an entry of a feed collection: an object with fields, or null
NoFields == [k \in FieldNames |-> Undef]
NullEntry == [kind |-> "null", f |-> NoFields]
Obj(f) == [kind |-> "object", f |-> f]

S_ALL == <<"A","L","L">>
S_unknown == <<"u","n","k","n","o","w","n">>

\* ------------------------------------------------------------------------
\* Disclaimer Validator (part_001, validateDisclaimer / processDisclaimers)
\* ------------------------------------------------------------------------
mandatoryFields == {"id", "index", "title", "text", "URLs"}

\* validateDisclaimerURLs(disclaimer)
validateDisclaimerURLs(f) ==
    /\ Truthy(f.URLs)
    /\ f.URLs.t = "array"
    /\ \A i \in 1..Len(f.URLs.a) : isValidSamsungURL(f.URLs.a[i])

\* `v && !this.isValidISODate(v)` of validateDisclaimer: "ok" when the
\* check passes, "bad" when it rejects, "throw" when isValidISODate calls
\* .replace on a value that is not a string (the regular expression is
\* tested on String(v), which an array of one date string satisfies)
DateCheck(v) ==
    IF ~Truthy(v) THEN "ok"
    ELSE IF ~IsoFormat(ToStr(v)) THEN "bad"
    ELSE IF v.t # "string" THEN "throw"
    ELSE IF DateOf(v.s).ok THEN "ok" ELSE "bad"

\* validateDisclaimer(disclaimer): "true", "false", or "throw" for the
\* TypeError of a property read on null
validateDisclaimer(e) ==
    IF e.kind = "null" THEN "throw"
    ELSE LET f == e.f IN
         IF \E k \in mandatoryFields : ~Truthy(f[k]) THEN "false"
         ELSE IF f.id.t \notin {"string", "number"} THEN "false"
         ELSE IF f.title.t # "string" \/ trim(f.title.s) = <<>> THEN "false"
         ELSE IF f.text.t # "string" \/ trim(f.text.s) = <<>> THEN "false"
         ELSE IF f.URLs.t # "array" \/ Len(f.URLs.a) = 0 THEN "false"
         ELSE IF ~validateDisclaimerURLs(f) THEN "false"
         ELSE IF Truthy(f.div) /\ f.div.t # "string" THEN "false"
         ELSE IF DateCheck(f.startDate) # "ok"
              THEN (IF DateCheck(f.startDate) = "throw" THEN "throw" ELSE "false")
         ELSE IF DateCheck(f.endDate) # "ok"
              THEN (IF DateCheck(f.endDate) = "throw" THEN "throw" ELSE "false")
         ELSE "true"

\* a property key that is a canonical array index: Object.values lists
\* these first, in ascending numeric order, before the other keys
IsIndexKey(k) ==
    /\ k # <<>>
    /\ \A i \in 1..Len(k) : IsDigit(k[i])
    /\ (Len(k) > 1 => k[1] # "0")

RECURSIVE KeyNum(_)
KeyNum(k) == IF k = <<>> THEN 0 ELSE 10 * KeyNum(SubSeq(k, 1, Len(k) - 1)) + DigitVal(k[Len(k)])

\* does key a come before key b in the property order of an object, b
\* being the key that is added
KeyBefore(a, b) ==
    IF IsIndexKey(b) THEN IsIndexKey(a) /\ KeyNum(a) < KeyNum(b) ELSE TRUE

\* validDisclaimers[disclaimer.id] = disclaimer, the object being kept as
\* the sequence of its properties in Object.values order.  A property
\* value is a reference to the entry of the array: ref is the position of
\* that entry, rec its fields.
SetProp(obj, key, rec, ref) ==
    LET p == [key |-> key, rec |-> rec, ref |-> ref] IN
    IF \E i \in 1..Len(obj) : obj[i].key = key
    THEN [i \in 1..Len(obj) |-> IF obj[i].key = key THEN p ELSE obj[i]]
    ELSE LET n == Cardinality({i \in 1..Len(obj) : KeyBefore(obj[i].key, key)})
         IN  SubSeq(obj, 1, n) \o << p >> \o SubSeq(obj, n + 1, Len(obj))

\* the two assignments of the valid branch of processDisclaimers
Normalized(e) ==
    [e EXCEPT !.f.title = Str(normalizeText(e.f.title.s)),
              !.f.text = Str(processText(e.f.text.s))]

\* processDisclaimers(disclaimers) on an array: the forEach loop from entry
\* i on.  acc.valid is validDisclaimers, acc.invalid is invalidDisclaimers,
\* acc.arr the array itself, whose valid entries the loop overwrites in
\* place; acc.threw is set when validateDisclaimer throws, which ends the
\* loop with the entries before it already rewritten.
\* the valid branch: entry i is overwritten by e2 and stored under its id
Keep(acc, i, e2) ==
    [acc EXCEPT !.arr[i] = e2, !.valid = SetProp(@, ToStr(e2.f.id), e2.f, i)]

\* the invalid branch: the id of e, or 'unknown', is listed
Skip(acc, e) ==
    [acc EXCEPT !.invalid = Append(@, IF Truthy(e.f.id) THEN e.f.id ELSE Str(S_unknown))]

Step_storeAll(acc, i, e, r) ==
    IF r = "throw" THEN [acc EXCEPT !.threw = TRUE] ELSE Keep(acc, i, Normalized(e))

\* one turn of the loop, r being the verdict of validateDisclaimer on e
Step(acc, i, e, r) ==
    IF r = "throw" THEN [acc EXCEPT !.threw = TRUE]
    ELSE IF r = "true" THEN Keep(acc, i, Normalized(e))
    ELSE Skip(acc, e)

RECURSIVE ProcessFrom(_, _)
ProcessFrom(acc, i) ==
    IF i > Len(acc.arr) \/ acc.threw THEN acc
    ELSE ProcessFrom(Step(acc, i, acc.arr[i], validateDisclaimer(acc.arr[i])), i + 1)

processDisclaimers(arr) ==
    ProcessFrom([threw |-> FALSE, valid |-> <<>>, invalid |-> <<>>, arr |-> arr], 1)

\* ------------------------------------------------------------------------
\* XML feed (part_001, parseXML)
\* ------------------------------------------------------------------------
\* element.getElementsByTagName(tag)[0]?.textContent || dflt, an absent
\* child element being the undefined field of the element
ChildText(el, tag, dflt) ==
    IF Truthy(el.f[tag]) THEN ToStr(el.f[tag]) ELSE dflt

\* the data object built for one <disclaimer> element; el.f.URLs holds the
\* texts of its <url> children
XmlRecord(el) ==
    Obj([k \in FieldNames |->
          CASE k = "div" -> Str(ChildText(el, "div", S_ALL))
            [] k = "URLs" -> IF Len(el.f.URLs.a) > 0
                             THEN Arr(SelectSeq(el.f.URLs.a, LAMBDA u : u # <<>>))
                             ELSE Undef
            [] k = "apex" -> Undef
            [] OTHER -> Str(ChildText(el, k, <<>>))])

\* parseXML(xml).disclaimers for a well-formed document
parseXML(els) == [i \in 1..Len(els) |-> XmlRecord(els[i])]

\* ------------------------------------------------------------------------
\* Eligibility Filter (part_001, isDisclaimerActive / isUrlMatch /
\* isDivisionMatch)
\* ------------------------------------------------------------------------
ConstructDivision_noStrip(opt) == toUpperCase(IF opt = <<>> THEN S_ALL ELSE opt)

\* the constructor's (options.currentDivision || 'ALL').toUpperCase()
\* .replace(/\s/g, ''); the empty string stands for an option not given
ConstructDivision(opt) == StripSpaces(toUpperCase(IF opt = <<>> THEN S_ALL ELSE opt))

\* ToNumber of a parseDate result (null converts to 0)
TimeOf(d) == IF d.ok THEN d.t ELSE 0

\* the reference instant of isDisclaimerActive: hostname is
\* window.location.hostname, qaDate the option (empty: not given), now the
\* value of new Date()
CheckDate(hostname, qaDate, now) ==
    IF (\E i \in 1..Len(qaDomains) : Contains(hostname, qaDomains[i])) /\ qaDate # <<>>
    THEN parseDate(qaDate)
    ELSE [ok |-> TRUE, t |-> now]

isDisclaimerActive_exclusiveEnd(f, hostname, qaDate, now) ==
    LET checkDate == CheckDate(hostname, qaDate, now)
        startDate == IF Truthy(f.startDate) THEN parseDate(f.startDate.s) ELSE checkDate
        endDate == IF Truthy(f.endDate) THEN parseDate(f.endDate.s) ELSE [ok |-> FALSE, t |-> 0]
    IN  IF ~Truthy(f.startDate) /\ ~Truthy(f.endDate) THEN TRUE
        ELSE IF TimeOf(checkDate) < TimeOf(startDate) THEN FALSE
        ELSE IF endDate.ok /\ TimeOf(checkDate) >= TimeOf(endDate) THEN FALSE
        ELSE TRUE

\* isDisclaimerActive(disclaimer) for a record f whose bounds are strings
\* or absent
isDisclaimerActive(f, hostname, qaDate, now) ==
    LET checkDate == CheckDate(hostname, qaDate, now)
        startDate == IF Truthy(f.startDate) THEN parseDate(f.startDate.s) ELSE checkDate
        endDate == IF Truthy(f.endDate) THEN parseDate(f.endDate.s) ELSE [ok |-> FALSE, t |-> 0]
    IN  IF ~Truthy(f.startDate) /\ ~Truthy(f.endDate) THEN TRUE
        ELSE IF TimeOf(checkDate) < TimeOf(startDate) THEN FALSE
        ELSE IF endDate.ok /\ TimeOf(checkDate) > TimeOf(endDate) THEN FALSE
        ELSE TRUE

\* isUrlMatch(disclaimer), href being window.location.href
isUrlMatch(f, href) ==
    IF ~Truthy(f.URLs) \/ (f.URLs.t = "array" /\ Len(f.URLs.a) = 0) THEN TRUE
    ELSE IF ~isValidDomain(href) THEN FALSE
    ELSE LET currentPath == extractPathAfterCountry(href)
         IN  IF ~currentPath.ok \/ currentPath.v = <<>> THEN FALSE
             ELSE \E i \in 1..Len(f.URLs.a) :
                      LET disclaimerPath == extractPathAfterCountry(f.URLs.a[i])
                      IN  disclaimerPath.ok /\ disclaimerPath.v = currentPath.v

\* isDivisionMatch(disclaimer), currentDivision as set by the constructor
isDivisionMatch(f, currentDivision) ==
    IF ~Truthy(f.div) THEN TRUE
    ELSE IF currentDivision = S_ALL THEN TRUE
    ELSE includes(split(currentDivision, ","), toUpperCase(f.div.s))

\* ------------------------------------------------------------------------
\* Renderer (part_001, insertPageContents, lines 594-637)
\* ------------------------------------------------------------------------
\* the comparator of applicableDisclaimers.sort
ApexCompare(a, b) ==
    IF ~Truthy(a.apex) /\ ~Truthy(b.apex) THEN 0
    ELSE IF ~Truthy(a.apex) THEN 1
    ELSE IF ~Truthy(b.apex) THEN 0 - 1
    ELSE a.apex.n - b.apex.n

\* Array.prototype.sort is stable: an element goes after every element that
\* does not compare greater than it
RECURSIVE SortFrom(_, _, _)
SortFrom(sorted, arr, i) ==
    IF i > Len(arr) THEN sorted
    ELSE LET e == arr[i]
             n == Cardinality({j \in 1..Len(sorted) :
                                  \A k \in 1..j : ApexCompare(sorted[k], e) <= 0})
         IN  SortFrom(SubSeq(sorted, 1, n) \o << e >> \o SubSeq(sorted, n + 1, Len(sorted)),
                      arr, i + 1)

SortByApex(arr) == SortFrom(<<>>, arr, 1)

\* Object.values(this.data.disclaimers)
Values(obj) == [k \in 1..Len(obj) |-> obj[k].rec]

Applicable_anyOf(d, c, href, now) ==
    SelectSeq(Values(d), LAMBDA f :
        \/ isDisclaimerActive(f, ParseURL(href).hostname, c.qaDate, now)
        \/ isUrlMatch(f, href)
        \/ isDivisionMatch(f, c.currentDivision))

\* the filter of insertPageContents
Applicable(d, c, href, now) ==
    SelectSeq(Values(d), LAMBDA f :
        /\ isDisclaimerActive(f, ParseURL(href).hostname, c.qaDate, now)
        /\ isUrlMatch(f, href)
        /\ isDivisionMatch(f, c.currentDivision))

\* sortedDisclaimers, given applicableDisclaimers
SortedIf(ignoreApex, applicable) ==
    IF ignoreApex THEN applicable ELSE SortByApex(applicable)

Sorted(d, c, href, now) == SortedIf(c.ignoreApex, Applicable(d, c, href, now))

\* the element appended for the record at position k (from 1): its heading,
\* present when the stored title is not empty, and the markup of its body
Element(f, k, c) ==
    LET prefix == IF c.ignoreApex THEN NumToStr(k)
                  ELSE IF Truthy(f.apex) THEN ToStr(f.apex) ELSE ToStr(f.id)
    IN  [id |-> f.id,
         heading |-> IF Truthy(f.title) THEN << f.title.s >> ELSE <<>>,
         body |-> prefix \o << ".", " " >> \o f.text.s]

\* the children of the container after the forEach loop over
\* sortedDisclaimers
Rendered(srt, c) == [k \in 1..Len(srt) |-> Element(srt[k], k, c)]

\* success: applicableDisclaimers.map(d => d.id), the array sort() has
\* reordered in place
SuccessIds(srt) == [k \in 1..Len(srt) |-> srt[k].id]

\* ------------------------------------------------------------------------
\* Feed Loader (part_001, loadData), the part that runs once the content is
\* at hand
\* ------------------------------------------------------------------------
\* A delivered feed: fmt is "json", "xml" or "garbage" (content that parses
\* as neither), top tells whether the JSON value has a truthy disclaimers
\* member, entries is the disclaimers array, or the <disclaimer> elements.
\* The result: ok with the object stored in this.data and the list of
\* skipped ids, or the error; arr is the array after the loop.
Processed(r) ==
    IF r.threw
    THEN [ok |-> FALSE, err |-> "exception", valid |-> <<>>, invalid |-> <<>>, arr |-> r.arr]
    ELSE [ok |-> TRUE, err |-> "none", valid |-> r.valid, invalid |-> r.invalid, arr |-> r.arr]

LoadOutcome(F) ==
    IF F.fmt = "garbage"
    THEN [ok |-> FALSE, err |-> "unparseable", valid |-> <<>>, invalid |-> <<>>, arr |-> F.entries]
    ELSE IF F.fmt = "json" /\ ~F.top
    THEN [ok |-> FALSE, err |-> "missing disclaimers", valid |-> <<>>, invalid |-> <<>>,
          arr |-> F.entries]
    ELSE Processed(processDisclaimers(IF F.fmt = "xml" THEN parseXML(F.entries)
                                      ELSE F.entries))

\* the callback of init: Object.values(data.disclaimers).some(d =>
\* !this.validateDisclaimer(d)) makes the promise reject
Revalidate(d) == \A k \in 1..Len(d) : validateDisclaimer(Obj(d[k].rec)) = "true"

\* ------------------------------------------------------------------------
\* Inputs of the model
\* ------------------------------------------------------------------------
U_samsung == S_https \o S_samsung
P_promoHtml == <<"/","i","t","/","p","r","o","m","o",".","h","t","m","l">>
P_promoSlash == <<"/","i","t","/","p","r","o","m","o","/">>
P_root == <<"/","i","t","/">>
P_tv == <<"/","i","t","/","t","v">>
D_start == <<"2","0","2","4","-","0","1","-","0","1"," ","0","0",":","0","0",":","0","0">>
D_end == <<"2","0","2","4","-","1","2","-","3","1"," ","2","3",":","5","9",":","5","9">>
D_mid == <<"2","0","2","4","-","0","6","-","1","5"," ","1","2",":","0","0",":","0","0">>
D_locale == <<"1","5","/","0","1","/","2","0","2","4"," ","1","0",":","3","0">>
S_Title == <<"T","i","t","l","e">>
S_Lorem == <<"L","o","r","e","m">>
S_MX == <<"M","X">>
S_AV == <<"A","V">>

Rec(id, index, apex, title, text, urls, div, start, end) ==
    Obj([k \in FieldNames |->
          CASE k = "id" -> id
            [] k = "index" -> index
            [] k = "apex" -> apex
            [] k = "title" -> title
            [] k = "text" -> text
            [] k = "URLs" -> urls
            [] k = "div" -> div
            [] k = "startDate" -> start
            [] k = "endDate" -> end])

\* records of a JSON feed: valid ones, one without URLs (as disclaimer2 of
\* the inline example), one whose title is a control character, a null
\* entry, a second record with the id "a", and records without id, without
\* title (and with a date of the other grammar), without text
E_mx == Rec(Str(<<"a">>), Num(1), Num(2), Str(S_Title), Str(S_Lorem),
            Arr(<< U_samsung \o P_promoSlash >>), Str(S_MX), Str(D_start), Str(D_end))
E_av == Rec(Num(2), Num(2), Num(1), Str(S_Title),
            Str(<<"s","e","e"," ">> \o U_samsung \o P_tv),
            Arr(<< U_samsung \o P_root, U_samsung \o P_promoSlash >>), Str(S_AV), Undef, Undef)
E_nourls == Rec(Str(<<"c">>), Num(3), Undef, Str(S_Title), Str(S_Lorem), Undef, Str(S_AV),
                Undef, Undef)
E_ctl == Rec(Str(<<"d">>), Num(4), Undef, Str(<<"^A">>), Str(S_Lorem),
             Arr(<< U_samsung \o P_promoSlash >>), Undef, Undef, Undef)
E_dup == Rec(Str(<<"a">>), Num(5), Undef, Str(<<"<","b",">">>), Str(S_Lorem),
             Arr(<< U_samsung \o P_promoHtml >>), Undef, Str(D_start), Undef)
E_noid == Rec(Undef, Num(6), Undef, Str(S_Title), Str(S_Lorem),
              Arr(<< U_samsung \o P_promoSlash >>), Undef, Undef, Undef)
E_notitle == Rec(Str(<<"e">>), Num(7), Undef, Undef, Str(S_Lorem),
                 Arr(<< U_samsung \o P_promoSlash >>), Undef, Str(D_locale), Undef)
E_notext == Rec(Num(8), Num(8), Num(3), Str(S_Title), Undef,
                Arr(<< U_samsung \o P_promoSlash >>), Str(S_MX), Undef, Undef)

\* a record whose id, title and text carry markup characters, the text also
\* a URL with a query string
E_tag == Rec(Str(<<"<","i",">">>), Num(9), Undef, Str(<<"'","Q","\"">>),
             Str(<<"<","i",">"," ">> \o U_samsung \o P_tv \o <<"?","a","&","b">>),
             Arr(<< U_samsung \o P_promoSlash >>), Undef, Undef, Undef)

JsonEntries ==
    {E_mx, E_av, E_nourls, E_ctl, NullEntry, E_dup, E_noid, E_notitle, E_notext, E_tag}

\* <disclaimer> elements of an XML feed: the children are text or absent
X_mx == Rec(Str(<<"a">>), Str(<<"1">>), Undef, Str(S_Title), Str(S_Lorem),
            Arr(<< U_samsung \o P_promoSlash >>), Str(S_MX), Str(D_start), Str(D_end))
X_nodiv == Rec(Str(<<"2">>), Str(<<"2">>), Undef, Str(S_Title), Str(S_Lorem),
               Arr(<< U_samsung \o P_promoHtml >>), Undef, Undef, Undef)
X_nourls == Rec(Str(<<"c">>), Str(<<"3">>), Undef, Str(S_Title), Str(S_Lorem),
                Arr(<<>>), Str(S_AV), Undef, Undef)

X_av == Rec(Str(<<"d">>), Str(<<"4">>), Undef, Str(S_Title), Str(S_Lorem),
            Arr(<< U_samsung \o P_promoSlash >>), Str(S_AV), Undef, Str(D_end))

XmlElements == {X_mx, X_nodiv, X_nourls}

SeqsUpTo(S, n) == UNION {[1..k -> S] : k \in 0..n}

\* what a source can deliver
Feeds(source) ==
    LET json == [fmt : {"json"}, top : {TRUE}, entries : SeqsUpTo(JsonEntries, MaxFeed)]
        notop == {[fmt |-> "json", top |-> FALSE, entries |-> <<>>]}
        xml == [fmt : {"xml"}, top : {TRUE}, entries : SeqsUpTo(XmlElements, MaxFeed)]
        garbage == {[fmt |-> "garbage", top |-> FALSE, entries |-> <<>>]}
    IN  CASE source = "qaJSON" -> json \cup notop
          [] source = "qaXML" -> xml \cup garbage
          [] OTHER -> json \cup notop \cup xml \cup garbage

Sources == {"qaJSON", "qaXML", "dataURL"}

\* the options of the constructor that the model varies; obj is the
\* identity of the object given as qaJSON
Configs ==
    [source : Sources,
     obj : {0},
     currentDivision : {ConstructDivision(<<>>), ConstructDivision(<<"m","x">>)},
     ignoreApex : BOOLEAN,
     qaDate : {<<>>},
     containerId : {"cheilDisclaimers"}]

Hrefs == {U_samsung \o P_promoHtml}

ContainerIds == {"cheilDisclaimers"}

\* an element left in the container by an earlier script
StaleElement == [id |-> Str(<<"o","l","d">>), heading |-> <<>>, body |-> <<"o","l","d">>]

\* ------------------------------------------------------------------------
\* State
\* ------------------------------------------------------------------------
Inst == {1, 2}

VARIABLES
    insts,         \* the ContentParser instances that were constructed
    cfg,           \* per instance: the options set by the constructor
    href,          \* window.location.href
    now,           \* the value of new Date(), in seconds
    feed,          \* per instance: the inline feed object, or what dataURL serves
    data,          \* per instance: this.data ([set |-> FALSE] is null)
    loadP,         \* per instance: state of the promise made by loadData
    initPromise,   \* per instance: this.initPromise (0 is null, else a promise id)
    initState,     \* per instance: state of the promise this.initPromise
    isExecuted,    \* per instance: this.isExecuted
    calls,         \* per instance: the outcome of each insertPageContents call
    result,        \* per instance: the object the admitted call resolved with
    fetches,       \* per instance: number of $.get requests issued
    fetchPending,  \* per instance: a $.get request is in flight
    initRet,       \* per instance: the promises returned by the init() calls
    nextPid,       \* promise ids handed out so far
    dom,           \* per container id: the element and its children
    ncalls,        \* per instance: user calls made
    invalidLog,    \* per instance: the list given to console.warn
    loadErr,       \* per instance: the error loadData or init rejected with
    jobs,          \* the microtask queue (promise reactions), and whether it is being drained
    loadOrder,     \* the instances in the order in which their loadData promise settled
    pin,           \* input of the function under check (pure-function specifications)
    pout           \* its result

vars == << insts, cfg, href, now, feed, data, loadP, initPromise, initState, isExecuted,
           calls, result, fetches, fetchPending, initRet, nextPid, dom, ncalls,
           invalidLog, loadErr, jobs, loadOrder, pin, pout >>

loadVars == << feed, data, loadP, initPromise, initState, fetches, fetchPending, initRet,
               nextPid, invalidLog, loadErr, loadOrder >>

fetchVars == << feed, loadP, initPromise, initState, fetches, fetchPending, initRet,
                nextPid, invalidLog, loadErr, loadOrder >>

NoData == [set |-> FALSE, d |-> <<>>]
NoJobs == [q |-> <<>>, draining |-> FALSE]
NoResult == [set |-> FALSE, success |-> <<>>, failed |-> <<>>]
Settled == {"fulfilled", "rejected"}

\* the state of an instance right after its constructor
InitInstances(I) ==
    /\ insts = I
    /\ data = [i \in Inst |-> NoData]
    /\ loadP = [i \in Inst |-> "none"]
    /\ initPromise = [i \in Inst |-> 0]
    /\ initState = [i \in Inst |-> "none"]
    /\ isExecuted = [i \in Inst |-> FALSE]
    /\ calls = [i \in Inst |-> <<>>]
    /\ result = [i \in Inst |-> NoResult]
    /\ fetches = [i \in Inst |-> 0]
    /\ fetchPending = [i \in Inst |-> FALSE]
    /\ initRet = [i \in Inst |-> {}]
    /\ nextPid = 0
    /\ ncalls = [i \in Inst |-> 0]
    /\ invalidLog = [i \in Inst |-> <<>>]
    /\ loadErr = [i \in Inst |-> "none"]
    /\ jobs = NoJobs
    /\ loadOrder = <<>>

DefaultCfg == [source |-> "qaJSON", obj |-> 0, currentDivision |-> S_ALL, ignoreApex |-> FALSE,
               qaDate |-> <<>>, containerId |-> "cheilDisclaimers"]
EmptyFeed == [fmt |-> "json", top |-> TRUE, entries |-> <<>>]

\* one instance on a page whose container is absent or holds an element
Init ==
    /\ InitInstances({1})
    /\ \E c \in Configs : \E F \in Feeds(c.source) :
          /\ cfg = [i \in Inst |-> IF i = 1 THEN c ELSE DefaultCfg]
          /\ feed = [i \in Inst |-> IF i = 1 THEN F ELSE EmptyFeed]
    /\ href \in Hrefs
    /\ now = DateOf(D_mid).t
    /\ dom \in [ContainerIds -> {[exists |-> FALSE, children |-> <<>>],
                                 [exists |-> TRUE, children |-> << StaleElement >>]}]
    /\ pin = <<>>
    /\ pout = <<>>

\* ------------------------------------------------------------------------
\* Operations
\* ------------------------------------------------------------------------
\* the instances i and j were constructed with the same qaJSON object
SameObject(i, j) ==
    /\ i \in insts /\ j \in insts
    /\ cfg[i].source = "qaJSON" /\ cfg[j].source = "qaJSON"
    /\ cfg[i].obj = cfg[j].obj

\* the stored collection dt of an instance whose records are entries of the
\* array arr, after another instance has rewritten entries of arr
Reread(dt, arr) ==
    [set |-> dt.set,
     d |-> [k \in 1..Len(dt.d) |->
              [key |-> dt.d[k].key, rec |-> arr[dt.d[k].ref].f, ref |-> dt.d[k].ref]]]

\* the body of loadData's try block once the content is at hand: settles the
\* promise of loadData and, on success, stores this.data.  inPlace tells
\* whether the records are those of the inline object qaJSON, which
\* processDisclaimers rewrites in place: the rewritten entries are seen by
\* every instance that holds the same object.
Settle(i, inPlace, o) ==
    /\ loadP' = [loadP EXCEPT ![i] = IF o.ok THEN "fulfilled" ELSE "rejected"]
    /\ data' = [j \in Inst |->
                  IF j = i THEN (IF o.ok THEN [set |-> TRUE, d |-> o.valid] ELSE data[i])
                  ELSE IF inPlace /\ SameObject(i, j) THEN Reread(data[j], o.arr)
                  ELSE data[j]]
    /\ invalidLog' = [invalidLog EXCEPT ![i] = o.invalid]
    /\ loadErr' = [loadErr EXCEPT ![i] = o.err]
    /\ loadOrder' = Append(loadOrder, i)
    /\ feed' = [j \in Inst |->
                  IF inPlace /\ (j = i \/ SameObject(i, j))
                  THEN [feed[j] EXCEPT !.entries = o.arr] ELSE feed[j]]

Load(i, inPlace) == Settle(i, inPlace, LoadOutcome(feed[i]))

Memoized_off(i) == FALSE

Memoized_retry(i) == initPromise[i] # 0 /\ initState[i] # "rejected"

\* `if (!this.initPromise)` of init
Memoized(i) == initPromise[i] # 0

\* a promise reaction: kind "then" is the callback init gave to .then, kind
\* "resume" the continuation of insertPageContents after its await
Job(kind, i) == [kind |-> kind, i |-> i]

\* the microtask queue after a call of init(): `.then(...)` on the promise of
\* loadData queues its reaction at once when that promise has settled, which
\* it has with inline content
QueueAfterInit(i) ==
    IF Memoized(i) \/ cfg[i].source = "dataURL" THEN jobs.q
    ELSE Append(jobs.q, Job("then", i))

\* the queue after a reaction has run and left the queue q: the drain goes
\* on until the queue is empty
Drained(q) == [q |-> q, draining |-> q # <<>>]

\* init(): makes and memoizes the promise on the first call, returns
\* this.initPromise.  With inline content loadData settles its promise
\* before it returns; with dataURL it issues the request.
InitCall(i) ==
    IF Memoized(i)
    THEN /\ initRet' = [initRet EXCEPT ![i] = @ \cup {initPromise[i]}]
         /\ UNCHANGED << feed, data, loadP, initPromise, initState, fetches, fetchPending,
                         nextPid, invalidLog, loadErr, loadOrder >>
    ELSE /\ nextPid' = nextPid + 1
         /\ initPromise' = [initPromise EXCEPT ![i] = nextPid + 1]
         /\ initState' = [initState EXCEPT ![i] = "pending"]
         /\ initRet' = [initRet EXCEPT ![i] = @ \cup {nextPid + 1}]
         /\ IF cfg[i].source = "dataURL"
            THEN /\ fetches' = [fetches EXCEPT ![i] = @ + 1]
                 /\ fetchPending' = [fetchPending EXCEPT ![i] = TRUE]
                 /\ loadP' = [loadP EXCEPT ![i] = "pending"]
                 /\ UNCHANGED << feed, data, invalidLog, loadErr, loadOrder >>
            ELSE /\ Load(i, cfg[i].source = "qaJSON")
                 /\ UNCHANGED << fetches, fetchPending >>

RenderSorted_noClear(i, srt) ==
    /\ dom' = [dom EXCEPT ![cfg[i].containerId] =
                  [exists |-> TRUE, children |-> @.children \o Rendered(srt, cfg[i])]]
    /\ result' = [result EXCEPT ![i] =
                  [set |-> TRUE, success |-> SuccessIds(srt), failed |-> <<>>]]
    /\ data' = data

\* lines 583-637 of insertPageContents: get or create the container, clear
\* it, append the applicable records, resolve with their ids
RenderSorted_sortsStore(i, srt) ==
    /\ dom' = [dom EXCEPT ![cfg[i].containerId] =
                  [exists |-> TRUE, children |-> Rendered(srt, cfg[i])]]
    /\ result' = [result EXCEPT ![i] =
                  [set |-> TRUE, success |-> SuccessIds(srt), failed |-> <<>>]]
    /\ data' = [data EXCEPT ![i].d =
                  [k \in 1..Len(srt) |-> CHOOSE e \in Range(data[i].d) : e.rec = srt[k]]]

\* The stored collection is only read: Object.values makes a new array,
\* which filter copies and sort reorders.
RenderSorted(i, srt) ==
    /\ dom' = [dom EXCEPT ![cfg[i].containerId] =
                  [exists |-> TRUE, children |-> Rendered(srt, cfg[i])]]
    /\ result' = [result EXCEPT ![i] =
                  [set |-> TRUE, success |-> SuccessIds(srt), failed |-> <<>>]]
    /\ data' = data

Render(i) == RenderSorted(i, Sorted(data[i].d, cfg[i], href, now))

\* the reactions queued are being run: they all run before any other
\* script or callback, user code cannot run in between
MicrotaskDue == jobs.draining

\* a user script calls init()
CallInit(i) ==
    /\ ncalls[i] < MaxCalls /\ ~MicrotaskDue
    /\ ncalls' = [ncalls EXCEPT ![i] = @ + 1]
    /\ InitCall(i)
    /\ jobs' = [jobs EXCEPT !.q = QueueAfterInit(i)]
    /\ UNCHANGED << insts, cfg, href, now, isExecuted, calls, result, dom, pin, pout >>

TooManyCalls_off(i) == FALSE

\* `if (this.isExecuted)` of insertPageContents
TooManyCalls(i) == isExecuted[i]

\* a user script calls insertPageContents(): up to the await, or to the
\* end when this.data is already set.  Awaiting a promise that has settled
\* queues the continuation at once.
CallInsert(i) ==
    /\ ncalls[i] < MaxCalls /\ ~MicrotaskDue
    /\ ncalls' = [ncalls EXCEPT ![i] = @ + 1]
    /\ IF TooManyCalls(i)
       THEN /\ calls' = [calls EXCEPT ![i] = Append(@, "rejected")]
            /\ UNCHANGED << isExecuted, result, dom, loadVars, jobs >>
       ELSE /\ isExecuted' = [isExecuted EXCEPT ![i] = TRUE]
            /\ IF data[i].set
               THEN /\ UNCHANGED << fetchVars, jobs >>
                    /\ Render(i)
                    /\ calls' = [calls EXCEPT ![i] = Append(@, "resolved")]
               ELSE /\ InitCall(i)
                    /\ jobs' = [jobs EXCEPT !.q =
                                  IF initState[i] \in Settled
                                  THEN Append(QueueAfterInit(i), Job("resume", i))
                                  ELSE QueueAfterInit(i)]
                    /\ calls' = [calls EXCEPT ![i] = Append(@, "awaiting")]
                    /\ UNCHANGED << result, dom >>
    /\ UNCHANGED << insts, cfg, href, now, pin, pout >>

\* the .done callback of $.get
FetchDone(i) ==
    /\ fetchPending[i] /\ jobs.q = <<>>
    /\ fetchPending' = [fetchPending EXCEPT ![i] = FALSE]
    /\ Load(i, FALSE)
    /\ jobs' = Drained(<< Job("then", i) >>)
    /\ UNCHANGED << insts, cfg, href, now, initPromise, initState, isExecuted, calls, result,
                    fetches, initRet, nextPid, dom, ncalls, pin, pout >>

\* the .fail callback of $.get
FetchFail(i) ==
    /\ fetchPending[i] /\ jobs.q = <<>>
    /\ fetchPending' = [fetchPending EXCEPT ![i] = FALSE]
    /\ loadP' = [loadP EXCEPT ![i] = "rejected"]
    /\ loadErr' = [loadErr EXCEPT ![i] = "transport"]
    /\ loadOrder' = Append(loadOrder, i)
    /\ jobs' = Drained(<< Job("then", i) >>)
    /\ UNCHANGED << insts, cfg, href, now, feed, data, initPromise, initState, isExecuted,
                    calls, result, fetches, initRet, nextPid, dom, ncalls, invalidLog,
                    pin, pout >>

\* the reaction of init's .then(...) to the settled promise of loadData
InitThen(i) ==
    /\ jobs.q # <<>> /\ Head(jobs.q) = Job("then", i)
    /\ initPromise[i] # 0 /\ initState[i] = "pending" /\ loadP[i] \in Settled
    /\ jobs' = Drained(IF calls[i] # <<>> /\ calls[i][1] = "awaiting"
                       THEN Append(Tail(jobs.q), Job("resume", i))
                       ELSE Tail(jobs.q))
    /\ IF loadP[i] = "rejected"
       THEN /\ initState' = [initState EXCEPT ![i] = "rejected"]
            /\ UNCHANGED loadErr
       ELSE IF Revalidate(data[i].d)
       THEN /\ initState' = [initState EXCEPT ![i] = "fulfilled"]
            /\ UNCHANGED loadErr
       ELSE /\ initState' = [initState EXCEPT ![i] = "rejected"]
            /\ loadErr' = [loadErr EXCEPT ![i] = "Invalid JSON format"]
    /\ UNCHANGED << insts, cfg, href, now, feed, data, loadP, initPromise, isExecuted, calls,
                    result, fetches, fetchPending, initRet, nextPid, dom, ncalls,
                    invalidLog, loadOrder, pin, pout >>

LoadedOk_always(i) == TRUE

\* `await this.init()` returns instead of throwing
LoadedOk(i) == initState[i] = "fulfilled"

\* insertPageContents resumes after `await this.init()`: renders, or lands
\* in its catch block and returns { success: [], failed: [] }
InsertResume(i) ==
    /\ jobs.q # <<>> /\ Head(jobs.q) = Job("resume", i)
    /\ calls[i] # <<>> /\ calls[i][1] = "awaiting"
    /\ initState[i] \in Settled
    /\ jobs' = Drained(Tail(jobs.q))
    /\ calls' = [calls EXCEPT ![i][1] = "resolved"]
    /\ IF LoadedOk(i)
       THEN Render(i)
       ELSE /\ result' = [result EXCEPT ![i] = [set |-> TRUE, success |-> <<>>,
                                                failed |-> <<>>]]
            /\ UNCHANGED << dom, data >>
    /\ UNCHANGED << insts, cfg, href, now, isExecuted, ncalls, fetchVars, pin, pout >>

Next ==
    \E i \in insts :
        \/ CallInit(i)
        \/ CallInsert(i)
        \/ FetchDone(i)
        \/ FetchFail(i)
        \/ InitThen(i)
        \/ InsertResume(i)

Spec == Init /\ [][Next]_vars

\* ------------------------------------------------------------------------
\* Properties of the render entry point and of the loader
\* ------------------------------------------------------------------------
\* a container nothing was rendered into: absent, or as the page had it
Pristine(c) ==
    dom[c] \in {[exists |-> FALSE, children |-> <<>>],
                [exists |-> TRUE, children |-> << StaleElement >>]}

\* the errors of a failed load: transport, or a malformed feed
LoadFailures == {"transport", "unparseable", "missing disclaimers"}

\* C1: a call of insertPageContents that follows an earlier call on the same
\* instance is rejected and leaves the container alone, whether the earlier
\* call is still awaiting the feed or has completed; and once the first call
\* has completed, nothing changes the container any more.
C1_SecondCallFails ==
    [][\A i \in insts :
         calls[i] # <<>> =>
            /\ Len(calls'[i]) > Len(calls[i]) =>
                  /\ calls'[i][Len(calls'[i])] = "rejected"
                  /\ dom' = dom /\ result' = result
            /\ calls[i][1] = "resolved" => dom' = dom]_vars

C1_Witness ==
    /\ Len(calls[1]) >= 2 /\ calls[1][1] = "resolved" /\ calls[1][2] = "rejected"
    /\ dom["cheilDisclaimers"].exists /\ Len(dom["cheilDisclaimers"].children) >= 1
    /\ ~Pristine("cheilDisclaimers")

\* C2: when the load fails (transport error or malformed feed), the promise
\* of the insertPageContents call that awaited it is rejected.
C2_LoadFailureRejects ==
    \A i \in insts :
        (calls[i] # <<>> /\ calls[i][1] # "awaiting" /\ loadErr[i] \in LoadFailures)
            => calls[i][1] = "rejected"

\* C3: when the load fails (transport error or malformed feed), the
\* container is not created, cleared or appended to.
C3_NoRenderOnLoadFailure ==
    \A i \in insts :
        loadErr[i] \in LoadFailures => /\ Pristine(cfg[i].containerId)
                                       /\ result[i].success = <<>>

C3_Witness ==
    /\ loadErr[1] = "transport" /\ calls[1] # <<>> /\ calls[1][1] = "resolved"
    /\ result[1].set
    /\ dom["cheilDisclaimers"] = [exists |-> TRUE, children |-> << StaleElement >>]

\* C4: whatever init() and insertPageContents() calls are made on an
\* instance, at most one request is issued, and every init() call returns
\* the one memoized promise, whether the request is in flight or the promise
\* has settled; a settled promise keeps its outcome.
C4_SingleFetch ==
    [][\A i \in insts :
          /\ fetches'[i] <= 1
          /\ initRet'[i] \subseteq {initPromise'[i]}
          /\ Cardinality(initRet'[i]) <= 1
          /\ (initPromise[i] # 0 => initPromise'[i] = initPromise[i])
          /\ (initState[i] \in Settled => initState'[i] = initState[i])]_vars

C4_Witness ==
    /\ fetches[1] = 1 /\ ncalls[1] >= 3 /\ initState[1] \in Settled
    /\ Cardinality(initRet[1]) = 1 /\ ~fetchPending[1]

\* the record parseXML makes of an element; a JSON entry is a record already
AsRecord(F, e) == IF F.fmt = "xml" THEN XmlRecord(e) ELSE e

\* the feed has a top-level disclaimers collection
HasCollection(F) == F.fmt = "xml" \/ (F.fmt = "json" /\ F.top)

\* C5: for every collection under a top-level disclaimers entry, whatever
\* valid and invalid records it holds, the load succeeds, and every stored
\* record satisfies validation as stored.
C5_InvalidRecordsNonFatal ==
    \A i \in insts :
        (HasCollection(feed[i]) /\ initState[i] \in Settled /\ loadErr[i] # "transport")
            => /\ initState[i] = "fulfilled"
               /\ data[i].set
               /\ Revalidate(data[i].d)

\* the record lacks one of id, title, text, urls
Lacks(e) ==
    /\ e.kind = "object"
    /\ \/ \E k \in {"id", "title", "text", "URLs"} : e.f[k] = Undef
       \/ e.f.URLs = Arr(<<>>)

\* the element was rendered from the record r
RenderedFrom(el, r, c) ==
    \E k \in 1..(MaxFeed + 1) : el \in {Element(r.f, k, c), Element(Normalized(r).f, k, c)}

\* C6: a record that lacks id, title, text or urls fails validation, is not
\* in the stored feed and is not rendered.
C6_IncompleteRecordExcluded ==
    \A i \in insts : \A k \in 1..Len(feed[i].entries) :
        LET e == feed[i].entries[k]
            r == AsRecord(feed[i], e)
            kids == dom[cfg[i].containerId].children
        IN  Lacks(e) =>
               /\ validateDisclaimer(r) = "false"
               /\ \A j \in 1..Len(data[i].d) : data[i].d[j].rec \notin {r.f, Normalized(r).f}
               /\ \A j \in 1..Len(kids) : ~RenderedFrom(kids[j], r, cfg[i])

C6_Witness ==
    /\ \E k \in 1..Len(feed[1].entries) : Lacks(feed[1].entries[k])
    /\ data[1].set /\ Len(data[1].d) >= 1
    /\ result[1].set /\ Len(result[1].success) >= 1

\* C7: validateDisclaimer returns true or false, without throwing, for
\* every entry of the collection the loader has run it on.
C7_ValidateNeverThrows ==
    \A i \in insts :
        loadP[i] \in Settled /\ loadErr[i] # "transport" =>
            /\ loadErr[i] # "exception"
            /\ \A k \in 1..Len(feed[i].entries) :
                  validateDisclaimer(AsRecord(feed[i], feed[i].entries[k])) \in {"true", "false"}

\* ------------------------------------------------------------------------
\* The eligibility predicates on their own: one instance is constructed, a
\* record is given, and the predicate is applied on the page
\* ------------------------------------------------------------------------
NoOutput == [done |-> FALSE, v |-> FALSE]

\* the state around an instance whose loader and renderer are not run
Standalone(c) ==
    /\ InitInstances({1})
    /\ cfg = [i \in Inst |-> IF i = 1 THEN c ELSE DefaultCfg]
    /\ feed = [i \in Inst |-> EmptyFeed]
    /\ dom = [k \in ContainerIds |-> [exists |-> FALSE, children |-> <<>>]]
    /\ pout = NoOutput

\* a valid record with the given division and bounds
RecordWith(div, start, end) ==
    Rec(Str(<<"a">>), Num(1), Undef, Str(S_Title), Str(S_Lorem),
        Arr(<< U_samsung \o P_promoSlash >>), div, start, end).f

Bounds == {Undef, Str(<<>>), Str(D_start), Str(D_mid), Str(D_end)}

\* the instants around each bound
Instants == UNION {{DateOf(d).t - 1, DateOf(d).t, DateOf(d).t + 1} : d \in {D_start, D_mid, D_end}}

InitActive ==
    /\ \E q \in {<<>>, D_mid, D_end} : Standalone([DefaultCfg EXCEPT !.qaDate = q])
    /\ href \in {U_samsung \o P_promoHtml, S_https \o S_qa \o P_promoHtml}
    /\ now \in Instants
    /\ \E st \in Bounds, en \in Bounds : pin = RecordWith(Undef, st, en)

ApplyActive ==
    /\ ~pout.done
    /\ pout' = [done |-> TRUE,
                v |-> isDisclaimerActive(pin, ParseURL(href).hostname, cfg[1].qaDate, now)]
    /\ UNCHANGED << insts, cfg, href, now, feed, data, loadP, initPromise, initState,
                    isExecuted, calls, result, fetches, fetchPending, initRet, nextPid, dom,
                    ncalls, invalidLog, loadErr, jobs, loadOrder, pin >>

SpecActive == InitActive /\ [][ApplyActive]_vars

\* the reference instant: the override on a staging host, else the clock
ReferenceInstant ==
    IF ParseURL(href).hostname \in Range(qaDomains) /\ cfg[1].qaDate # <<>>
    THEN DateOf(cfg[1].qaDate).t
    ELSE now

\* C8: with bounds that parse and a valid reference instant t, the record is
\* active iff (startDate absent or startDate <= t) and (endDate absent or
\* t <= endDate), both ends inclusive.
C8_ActiveRange ==
    pout.done =>
        pout.v = (/\ (Truthy(pin.startDate) => DateOf(pin.startDate.s).t <= ReferenceInstant)
                  /\ (Truthy(pin.endDate) => ReferenceInstant <= DateOf(pin.endDate.s).t))

C8_Witness ==
    /\ pout.done /\ pout.v
    /\ pin.startDate = Str(D_start) /\ pin.endDate = Str(D_end)
    /\ ReferenceInstant = DateOf(D_end).t

DivisionOptions ==
    { <<>>, S_ALL, <<"a","l","l">>, S_MX, <<"m","x">>, <<"M","X",","," ","A","V">>,
      <<"m","x",",","a","v">>, <<" ","M","X"," ">>, S_AV, <<"I","T",",","M","X">> }

DivisionTags ==
    { Undef, Str(<<>>), Str(S_MX), Str(<<"m","x">>), Str(S_AV), Str(<<"a","v">>),
      Str(<<"M","x">>), Str(S_ALL), Str(<<"I","T">>), Str(<<"M">>) }

InitDivision ==
    /\ \E o \in DivisionOptions :
          /\ Standalone([DefaultCfg EXCEPT !.currentDivision = ConstructDivision(o)])
          /\ \E d \in DivisionTags : pin = [opt |-> o, f |-> RecordWith(d, Undef, Undef)]
    /\ href = U_samsung \o P_promoHtml
    /\ now = DateOf(D_mid).t

ApplyDivision ==
    /\ ~pout.done
    /\ pout' = [done |-> TRUE, v |-> isDivisionMatch(pin.f, cfg[1].currentDivision)]
    /\ UNCHANGED << insts, cfg, href, now, feed, data, loadP, initPromise, initState,
                    isExecuted, calls, result, fetches, fetchPending, initRet, nextPid, dom,
                    ncalls, invalidLog, loadErr, jobs, loadOrder, pin >>

SpecDivision == InitDivision /\ [][ApplyDivision]_vars

PagePaths == { <<>>, <<"p","r","o","m","o">>, <<"o","t","h","e","r">>,
               <<"t","v","/","p","r","o","m","o">> }
Decorations == { <<>>, <<"/">>, S_html, <<"?","q","=","1">>, <<"/","#","f">>,
                 S_html \o <<"?","q","=","1">> }

PageUrl(host, country, path, decor) ==
    S_https \o host \o << "/" >> \o country
        \o (IF path = <<>> THEN <<>> ELSE << "/" >> \o path) \o decor

InitUrl ==
    /\ Standalone(DefaultCfg)
    /\ now = DateOf(D_mid).t
    /\ \E h \in {S_samsung, S_qa}, p \in PagePaths, d \in Decorations :
          /\ href = PageUrl(h, <<"i","t">>, p, d)
          /\ \E c \in {<<"i","t">>, <<"f","r">>}, q \in PagePaths, e \in Decorations :
                pin = [pagePath |-> p, urlPath |-> q,
                       f |-> [RecordWith(Undef, Undef, Undef)
                                 EXCEPT !.URLs = Arr(<< PageUrl(S_samsung, c, q, e) >>)]]

ApplyUrl ==
    /\ ~pout.done
    /\ pout' = [done |-> TRUE, v |-> isUrlMatch(pin.f, href)]
    /\ UNCHANGED << insts, cfg, href, now, feed, data, loadP, initPromise, initState,
                    isExecuted, calls, result, fetches, fetchPending, initRet, nextPid, dom,
                    ncalls, invalidLog, loadErr, jobs, loadOrder, pin >>

SpecUrl == InitUrl /\ [][ApplyUrl]_vars

\* C10: on an approved host the record matches iff one of its urls has the
\* same normalized path as the current page, whatever trailing slash, .html
\* suffix, query string or fragment either URL carries.
C10_UrlMatchByPath ==
    pout.done => pout.v = (pin.urlPath = pin.pagePath)

\* ------------------------------------------------------------------------
\* The host check of isUrlMatch: pages on hosts on and off the allow-list
\* ------------------------------------------------------------------------
S_bare == <<"s","a","m","s","u","n","g",".","c","o","m">>
S_longer == S_samsung \o <<".","e","v","i","l",".","i","o">>
S_other == <<"e","v","i","l",".","i","o">>
S_shop == <<"s","h","o","p">> \o S_dotSamsung

PageHosts == {S_samsung, S_qa, S_bare, S_longer, S_other, S_shop}

InitHost ==
    /\ Standalone(DefaultCfg)
    /\ now = DateOf(D_mid).t
    /\ \E h \in PageHosts, p \in PagePaths, d \in {<<>>, S_html} :
          /\ href = PageUrl(h, <<"i","t">>, p, d)
          /\ \E q \in PagePaths :
                pin = [host |-> h, pagePath |-> p, urlPath |-> q,
                       f |-> [RecordWith(Undef, Undef, Undef)
                                 EXCEPT !.URLs = Arr(<< PageUrl(S_samsung, <<"i","t">>, q, <<"/">>) >>)]]

SpecHost == InitHost /\ [][ApplyUrl]_vars

\* no allow-listed domain contains the host and the host contains none
OffAllowList(host) ==
    \A k \in 1..Len(allowedDomains) :
        ~Contains(allowedDomains[k], host) /\ ~Contains(host, allowedDomains[k])

C20_ListedPageMatches ==
    (pout.done /\ pin.urlPath = pin.pagePath) => pout.v

\* ------------------------------------------------------------------------
\* normalizeText on its own: a text is given and normalized, and the result
\* is normalized again
\* ------------------------------------------------------------------------
TextChars == {"a", "&", "<", ";", " "}

InitNormalize ==
    /\ InitInstances({1})
    /\ cfg = [i \in Inst |-> DefaultCfg]
    /\ feed = [i \in Inst |-> EmptyFeed]
    /\ dom = [k \in ContainerIds |-> [exists |-> FALSE, children |-> <<>>]]
    /\ href = U_samsung \o P_promoHtml
    /\ now = DateOf(D_mid).t
    /\ pin \in SeqsUpTo(TextChars, MaxText)
    /\ pout = [n |-> 0, first |-> <<>>, v |-> pin]

\* one more call of normalizeText, on the result of the previous one
ApplyNormalize ==
    /\ pout.n < 2
    /\ pout' = [n |-> pout.n + 1,
                first |-> IF pout.n = 0 THEN normalizeText(pout.v) ELSE pout.first,
                v |-> normalizeText(pout.v)]
    /\ UNCHANGED << insts, cfg, href, now, feed, data, loadP, initPromise, initState,
                    isExecuted, calls, result, fetches, fetchPending, initRet, nextPid, dom,
                    ncalls, invalidLog, loadErr, jobs, loadOrder, pin >>

SpecNormalize == InitNormalize /\ [][ApplyNormalize]_vars

\* C12: for a text without control characters, normalizing the normalized
\* text gives the normalized text again.
C12_NormalizeIdempotent ==
    (pout.n = 2 /\ \A k \in 1..Len(pin) : ~IsControl(pin[k])) => pout.v = pout.first

\* ------------------------------------------------------------------------
\* Escaping of what is stored and written to the page
\* ------------------------------------------------------------------------
RawChars == {"<", ">", "\"", "'"}

NoRaw(s) == \A k \in 1..Len(s) : s[k] \notin RawChars

\* length of the anchor fragment of convertUrlsToAnchors that s starts with
\* (the same escaped URL as href and as content), 0 when there is none
AnchorLen(s) ==
    IF ~StartsWith(s, S_a_open) THEN 0
    ELSE LET uEnd == FirstOf(s, {"\""}, Len(S_a_open) + 1)
             u == SubSeq(s, Len(S_a_open) + 1, uEnd - 1)
             frag == S_a_open \o u \o S_a_mid \o u \o S_a_close
         IN  IF u # <<>> /\ NoRaw(u) /\ StartsWith(s, frag) THEN Len(frag) ELSE 0

\* s without its anchor fragments
RECURSIVE OutsideAnchors(_)
OutsideAnchors(s) ==
    LET at == {k \in 1..Len(s) : s[k] = "<" /\ AnchorLen(SubSeq(s, k, Len(s))) > 0} IN
    IF at = {} THEN s
    ELSE LET k == CHOOSE m \in at : \A j \in at : m <= j
         IN  SubSeq(s, 1, k - 1)
                \o OutsideAnchors(SubSeq(s, k + AnchorLen(SubSeq(s, k, Len(s))), Len(s)))

\* title and text of every stored record are escaped
StoredEscaped(i) ==
    \A k \in 1..Len(data[i].d) :
        /\ NoRaw(data[i].d[k].rec.title.s)
        /\ NoRaw(OutsideAnchors(data[i].d[k].rec.text.s))

\* C13: the title of a stored record has none of the raw characters < > " ',
\* its text has them only inside the anchor fragments of
\* convertUrlsToAnchors, and the body written to the page as markup has no
\* markup character outside those fragments.
C13_NoFeedMarkup ==
    \A i \in insts :
        /\ StoredEscaped(i)
        /\ result[i].set =>
              \A k \in 1..Len(dom[cfg[i].containerId].children) :
                  NoRaw(OutsideAnchors(dom[cfg[i].containerId].children[k].body))

\* ------------------------------------------------------------------------
\* The order of the rendered records: a feed of eligible records with
\* distinct ids is loaded and rendered with hint-based ordering
\* ------------------------------------------------------------------------
OrderIds == {Str(<<"a">>), Str(<<"b">>), Num(2)}
OrderHints == {Undef, Num(0), Num(1), Num(2)}

\* an eligible record with the given id and hint
OrderRec(id, apex) ==
    Rec(id, Num(1), apex, Str(S_Title), Str(S_Lorem), Arr(<< U_samsung \o P_promoSlash >>),
        Undef, Undef, Undef)

OrderFeeds ==
    { F \in SeqsUpTo({OrderRec(id, h) : id \in OrderIds, h \in OrderHints}, MaxFeed) :
        \A m, n \in 1..Len(F) : m # n => F[m].f.id # F[n].f.id }

InitOrder ==
    /\ Standalone(DefaultCfg)
    /\ href = U_samsung \o P_promoHtml
    /\ now = DateOf(D_mid).t
    /\ pin \in OrderFeeds

\* loadData on the inline feed, then the filter and sort of
\* insertPageContents: the ids in rendered order
ApplyOrder ==
    /\ ~pout.done
    /\ pout' = [done |-> TRUE,
                v |-> SuccessIds(Sorted(Processed(processDisclaimers(pin)).valid,
                                        cfg[1], href, now))]
    /\ UNCHANGED << insts, cfg, href, now, feed, data, loadP, initPromise, initState,
                    isExecuted, calls, result, fetches, fetchPending, initRet, nextPid, dom,
                    ncalls, invalidLog, loadErr, jobs, loadOrder, pin >>

SpecOrder == InitOrder /\ [][ApplyOrder]_vars

\* position in the feed, and hint, of the record with the given id
FeedPos(id) == CHOOSE k \in 1..Len(pin) : pin[k].f.id = id
Hint(id) == pin[FeedPos(id)].f.apex

\* C14: with hint-based ordering, the records are rendered by hint
\* ascending, every record with a hint before every record without one, and
\* records with equal hints or both without a hint in feed order.
C14_HintOrder ==
    pout.done =>
        /\ Len(pout.v) = Len(pin)
        /\ \A m, n \in 1..Len(pout.v) :
              m < n =>
                 LET a == pout.v[m]
                     b == pout.v[n]
                 IN  /\ (Hint(a) # Undef /\ Hint(b) # Undef) => Hint(a).n <= Hint(b).n
                     /\ ~(Hint(a) = Undef /\ Hint(b) # Undef)
                     /\ Hint(a) = Hint(b) => FeedPos(a) < FeedPos(b)

\* ------------------------------------------------------------------------
\* The result of a render
\* ------------------------------------------------------------------------
\* the three predicates hold for the stored record f of instance i
Eligible(i, f) ==
    /\ isDisclaimerActive(f, ParseURL(href).hostname, cfg[i].qaDate, now)
    /\ isUrlMatch(f, href)
    /\ isDivisionMatch(f, cfg[i].currentDivision)

\* the step completes a call of insertPageContents of instance i without an
\* error: the call found this.data set, or its await returned
CompletesNormally(i) ==
    /\ ~result[i].set /\ result'[i].set
    /\ (calls[i] = <<>> \/ initState[i] = "fulfilled")

JsonOf(el) == [el EXCEPT !.f.URLs = IF Len(@.a) = 0 THEN Undef ELSE @]

InitFormat ==
    /\ \E d \in {<<>>, <<"m","x">>}, g \in BOOLEAN :
          Standalone([DefaultCfg EXCEPT !.currentDivision = ConstructDivision(d),
                                        !.ignoreApex = g])
    /\ href = U_samsung \o P_promoHtml
    /\ now = DateOf(D_mid).t
    /\ pin \in SeqsUpTo(XmlElements \cup {X_av}, MaxFeed)

\* what the loader and the renderer make of a delivered feed F
Delivered(F, o) ==
    [ok |-> o.ok,
     verdicts |-> [k \in 1..Len(F.entries) |-> validateDisclaimer(AsRecord(F, F.entries[k]))],
     keys |-> [k \in 1..Len(o.valid) |-> o.valid[k].key],
     kids |-> Rendered(Sorted(o.valid, cfg[1], href, now), cfg[1])]

ApplyFormat ==
    /\ ~pout.done
    /\ LET X == [fmt |-> "xml", top |-> TRUE, entries |-> pin]
           J == [fmt |-> "json", top |-> TRUE,
                 entries |-> [k \in 1..Len(pin) |-> JsonOf(pin[k])]]
       IN  pout' = [done |-> TRUE, xml |-> Delivered(X, LoadOutcome(X)),
                    json |-> Delivered(J, LoadOutcome(J))]
    /\ UNCHANGED << insts, cfg, href, now, feed, data, loadP, initPromise, initState,
                    isExecuted, calls, result, fetches, fetchPending, initRet, nextPid, dom,
                    ncalls, invalidLog, loadErr, jobs, loadOrder, pin >>

SpecFormat == InitFormat /\ [][ApplyFormat]_vars

\* C16: the same records delivered as XML and as JSON get the same
\* validation verdicts, are stored under the same keys and give the same
\* rendered elements under every configuration; a valid record without
\* division that lists the page is rendered in both formats.
C16_FormatsEquivalent ==
    pout.done =>
        /\ pout.xml = pout.json
        /\ \A k \in 1..Len(pin) :
              (pin[k].f.div = Undef /\ pout.json.verdicts[k] = "true") =>
                  /\ \E j \in 1..Len(pout.json.kids) : pout.json.kids[j].id = pin[k].f.id
                  /\ \E j \in 1..Len(pout.xml.kids) : pout.xml.kids[j].id = pin[k].f.id

\* ------------------------------------------------------------------------
\* The override date: two instances that differ only in qaDate judge the
\* same record on the same page
\* ------------------------------------------------------------------------
S_qaLonger == S_qa \o <<".","e","v","i","l",".","i","o">>

OverrideHosts == {S_samsung, S_qa, S_qaLonger, S_other}

InitOverride ==
    /\ InitInstances({1, 2})
    /\ \E q1, q2 \in {<<>>, D_start, D_end} :
          cfg = [i \in Inst |-> [DefaultCfg EXCEPT !.qaDate = IF i = 1 THEN q1 ELSE q2]]
    /\ feed = [i \in Inst |-> EmptyFeed]
    /\ dom = [k \in ContainerIds |-> [exists |-> FALSE, children |-> <<>>]]
    /\ \E h \in OverrideHosts : href = S_https \o h \o P_promoHtml
    /\ now \in {DateOf(D_start).t - 1, DateOf(D_mid).t, DateOf(D_end).t + 1}
    /\ \E st \in Bounds, en \in Bounds : pin = RecordWith(Undef, st, en)
    /\ pout = NoOutput

\* isDisclaimerActive of each instance on the record
ApplyOverride ==
    /\ ~pout.done
    /\ pout' = [done |-> TRUE,
                v |-> [i \in Inst |-> isDisclaimerActive(pin, ParseURL(href).hostname,
                                                         cfg[i].qaDate, now)]]
    /\ UNCHANGED << insts, cfg, href, now, feed, data, loadP, initPromise, initState,
                    isExecuted, calls, result, fetches, fetchPending, initRet, nextPid, dom,
                    ncalls, invalidLog, loadErr, jobs, loadOrder, pin >>

SpecOverride == InitOverride /\ [][ApplyOverride]_vars

\* C17: on a page whose host is not one of the staging domains, two
\* instances that differ only in the override date give the same verdict
\* for every record.
C17_OverrideOnlyOnStaging ==
    (pout.done /\ ParseURL(href).hostname \notin Range(qaDomains)) => pout.v[1] = pout.v[2]

\* ------------------------------------------------------------------------
\* The stored feed after the load
\* ------------------------------------------------------------------------
\* C18: once the load of an instance has completed, no step of that
\* instance (filter, sort, numbering, writes to the page) changes its stored
\* feed: same records, same field values, same order.
C18_FeedImmutable ==
    [][\A i \in insts : data[i].set => data'[i] = data[i]]_vars

C18_Witness ==
    /\ data[1].set /\ Len(data[1].d) = 2
    /\ result[1].set /\ Len(result[1].success) = 2
    /\ result[1].success # [k \in 1..2 |-> data[1].d[k].rec.id]
    /\ Len(dom["cheilDisclaimers"].children) = 2

\* ------------------------------------------------------------------------
\* Two instances on one page, as in main.js: they share the container, and
\* are built from one inline object, from two equal inline objects, or with
\* the same dataURL
\* ------------------------------------------------------------------------
TwoFeeds ==
    { [fmt |-> "json", top |-> TRUE, entries |-> e] :
         e \in { << E_mx, E_av >>, << E_dup >>, << E_tag, E_mx >> } }

InitTwo ==
    /\ InitInstances({1, 2})
    /\ \E src \in {"qaJSON", "dataURL"}, same \in BOOLEAN, F \in TwoFeeds :
          /\ cfg = [i \in Inst |->
                      [source |-> src,
                       obj |-> IF same /\ src = "qaJSON" THEN 1 ELSE i,
                       currentDivision |-> IF i = 1 THEN S_MX ELSE S_ALL,
                       ignoreApex |-> FALSE,
                       qaDate |-> <<>>,
                       containerId |-> "cheilDisclaimers"]]
          /\ feed = [i \in Inst |-> F]
          /\ pin = [i \in Inst |-> F]
    /\ href \in Hrefs
    /\ now = DateOf(D_mid).t
    /\ dom = [k \in ContainerIds |-> [exists |-> FALSE, children |-> <<>>]]
    /\ pout = <<>>

SpecTwo == InitTwo /\ [][Next]_vars

\* C19: in every interleaving of two instances, each instance's execution
\* guard, load, stored feed and render result are those of the instance run
\* alone on the feed it was given (pin[i]).
C19_NoInterference ==
    \A i \in insts :
        /\ isExecuted[i] = (calls[i] # <<>>)
        /\ fetches[i] <= 1
        /\ initRet[i] \subseteq {initPromise[i]}
        /\ data[i].set => data[i].d = LoadOutcome(pin[i]).valid
        /\ (result[i].set /\ result[i].success # <<>>) =>
              result[i].success = SuccessIds(Sorted(LoadOutcome(pin[i]).valid,
                                                    cfg[i], href, now))

\* ------------------------------------------------------------------------
\* Sequential numbering: a feed of valid records with distinct ids, some of
\* another division, is loaded and rendered with ignoreApex set
\* ------------------------------------------------------------------------
NumberIds == {Str(<<"a">>), Str(<<"b">>), Num(2), Num(1)}

\* a valid record that lists the page, with the given id, hint and division
NumberRec(id, apex, div) ==
    Rec(id, Num(1), apex, Str(S_Title), Str(S_Lorem), Arr(<< U_samsung \o P_promoSlash >>),
        div, Undef, Undef)

NumberFeeds ==
    { F \in SeqsUpTo({NumberRec(id, h, d) : id \in NumberIds, h \in {Undef, Num(1)},
                                            d \in {Undef, Str(S_AV)}}, MaxFeed) :
        \A m, n \in 1..Len(F) : m # n => F[m].f.id # F[n].f.id }

InitNumber ==
    /\ Standalone([DefaultCfg EXCEPT !.currentDivision = S_MX, !.ignoreApex = TRUE])
    /\ href = U_samsung \o P_promoHtml
    /\ now = DateOf(D_mid).t
    /\ pin \in NumberFeeds

\* loadData on the inline feed, then the filter, the (skipped) sort and the
\* forEach loop of insertPageContents: the elements appended
ApplyNumber ==
    /\ ~pout.done
    /\ pout' = [done |-> TRUE,
                v |-> Rendered(Sorted(Processed(processDisclaimers(pin)).valid,
                                      cfg[1], href, now), cfg[1])]
    /\ UNCHANGED << insts, cfg, href, now, feed, data, loadP, initPromise, initState,
                    isExecuted, calls, result, fetches, fetchPending, initRet, nextPid, dom,
                    ncalls, invalidLog, loadErr, jobs, loadOrder, pin >>

SpecNumber == InitNumber /\ [][ApplyNumber]_vars

\* the eligible records of the delivered feed, in feed order
EligibleInFeed == SelectSeq(pin, LAMBDA e : Eligible(1, e.f))

\* C21: with ignoreApex set, the eligible records are rendered in the order
\* they have in the delivered feed, whatever their ids, and the k-th rendered
\* record is prefixed with the number k.
C21_FeedOrderNumbered ==
    pout.done =>
        /\ Len(pout.v) = Len(EligibleInFeed)
        /\ \A k \in 1..Len(pout.v) :
              /\ pout.v[k].id = EligibleInFeed[k].f.id
              /\ StartsWith(pout.v[k].body, NumToStr(k) \o << ".", " " >>)

\* ------------------------------------------------------------------------
\* Two instances rendering into one container
\* ------------------------------------------------------------------------
\* the ids of the records the container c holds
IdsIn(c) == [k \in 1..Len(dom[c].children) |-> dom[c].children[k].id]

\* the instances whose load completed, in the order of completion
Loaded == SelectSeq(loadOrder, LAMBDA i : loadP[i] = "fulfilled")

\* C22 (as claimed): with two instances that fetch their feed, the container
\* never holds records of both instances, and once the insertPageContents
\* calls of all instances have completed its content is that of the instance
\* whose load completed last.
C22_LastLoadWins ==
    (\A i \in insts : cfg[i].source = "dataURL") =>
        \A c \in ContainerIds :
            /\ dom[c].children # <<>> =>
                  \E i \in insts : result[i].set /\ IdsIn(c) = result[i].success
            /\ ((\A i \in insts : result[i].set /\ cfg[i].containerId = c) /\ Loaded # <<>>)
                  => IdsIn(c) = result[Loaded[Len(Loaded)]].success

\* C22 (amended): every change of the container is one render pass of one
\* instance, which leaves in the one container element exactly the eligible
\* records of that instance, in its order; so the container never holds
\* records of both instances and its final content is that of the instance
\* whose render pass ran last.
C22_RenderAtomic ==
    [][\A c \in ContainerIds :
          /\ dom'[c] # dom[c] =>
                \E i \in insts : cfg[i].containerId = c /\ ~result[i].set /\ result'[i].set
          /\ \A i \in insts :
                (cfg[i].containerId = c /\ CompletesNormally(i)) =>
                    dom'[c] = [exists |-> TRUE,
                               children |-> Rendered(Sorted(data[i].d, cfg[i], href, now),
                                                     cfg[i])]]_vars

C22_Witness ==
    /\ result[1].set /\ result[2].set
    /\ Len(result[1].success) = 1 /\ Len(result[2].success) = 2
    /\ loadOrder = << 1, 2 >> /\ loadP[1] = "fulfilled" /\ loadP[2] = "fulfilled"
    /\ cfg[1].source = "dataURL"
    /\ IdsIn("cheilDisclaimers") = result[2].success

\* ------------------------------------------------------------------------
\* No retry after a failed load
\* ------------------------------------------------------------------------
\* the load of instance i failed: the promise of loadData, or the promise of
\* init, is rejected
LoadFailed(i) == loadP[i] = "rejected" \/ initState[i] = "rejected"

\* C23: isExecuted is set from the first insertPageContents call on, before
\* the load is awaited, and is never reset; a rejected init promise stays the
\* memoized one; and once insertPageContents has been called and the load
\* has failed, no step of the instance issues a request or changes the
\* container, and every later insertPageContents call is rejected.
C23_NoRetry ==
    [][\A i \in insts :
          /\ calls[i] # <<>> => isExecuted[i]
          /\ isExecuted[i] => isExecuted'[i]
          /\ initState[i] = "rejected" =>
                (initState'[i] = "rejected" /\ initPromise'[i] = initPromise[i])
          /\ (calls[i] # <<>> /\ LoadFailed(i)) =>
                /\ fetches'[i] = fetches[i] /\ ~fetchPending'[i]
                /\ dom' = dom
                /\ Len(calls'[i]) > Len(calls[i]) =>
                      calls'[i][Len(calls'[i])] = "rejected"]_vars

C23_Witness ==
    /\ cfg[1].source = "dataURL" /\ loadErr[1] = "transport" /\ initState[1] = "rejected"
    /\ calls[1] = << "resolved", "rejected" >> /\ ncalls[1] = 3
    /\ result[1].set /\ result[1].success = <<>>
    /\ fetches[1] = 1 /\ Pristine("cheilDisclaimers")

\* ------------------------------------------------------------------------
\* processText on its own: a text with one URL in it is processed
\* ------------------------------------------------------------------------
LinkQueries == { <<>>, <<"?","a","=","1">>, <<"?","a","&","b">>, <<"?","a","&","b","&","c">>,
                 <<"?","q","=","'","x","'">> }

LinkUrls ==
    { sch \o h \o p \o q : sch \in {S_https, S_http}, h \in {S_samsung, S_other},
                           p \in {<<>>, P_tv, P_promoHtml}, q \in LinkQueries }

InitLinkify ==
    /\ Standalone(DefaultCfg)
    /\ href = U_samsung \o P_promoHtml
    /\ now = DateOf(D_mid).t
    /\ \E pre \in {<<>>, <<"s","e","e"," ">>, <<"<","i",">"," ">>},
          url \in LinkUrls,
          post \in {<<>>, <<" ","e","n","d">>} :
          pin = [pre |-> pre, url |-> url, post |-> post]

ApplyLinkify ==
    /\ ~pout.done
    /\ pout' = [done |-> TRUE, v |-> processText(pin.pre \o pin.url \o pin.post)]
    /\ UNCHANGED << insts, cfg, href, now, feed, data, loadP, initPromise, initState,
                    isExecuted, calls, result, fetches, fetchPending, initRet, nextPid, dom,
                    ncalls, invalidLog, loadErr, jobs, loadOrder, pin >>

SpecLinkify == InitLinkify /\ [][ApplyLinkify]_vars

\* the anchor whose href and label are the URL u escaped by one pass of
\* normalizeText
AnchorOnce(u) ==
    S_a_open \o normalizeText(u) \o S_a_mid \o normalizeText(u) \o S_a_close

\* C24: for a text with a well-formed http(s) URL in it, the text made by
\* processText is the escaped text with the URL replaced by an anchor whose
\* href and label are the URL escaped once.
C24_UrlEscapedOnce ==
    pout.done =>
        pout.v = EscapeHtml(pin.pre) \o AnchorOnce(pin.url) \o EscapeHtml(pin.post)

====
